---- MODULE Spec2Model ----
(***************************************************************************)
(* Observation aggregation and deduplication engine of the Avistar 2025    *)
(* dashboard (src/codigo.py): the ten query functions that the rendering   *)
(* pass runs over the shared source map `sheets_data`.                     *)
(*                                                                         *)
(* Data representation                                                     *)
(*  - A DataFrame is [cols |-> set of column names, rows |-> sequence of   *)
(*    rows]; pd.DataFrame() is EmptyDF.                                    *)
(*  - A text cell (species, observer, checklist id ...) is a positive      *)
(*    integer, its rank in the collation order of the strings, so that     *)
(*    sorting by group key can be computed; NaN (0) is the missing cell.   *)
(*  - An obsDt cell is [k, v]: k = "str" with v the fields                 *)
(*    <<Y, m, d, H, M, S>> of the text, k = "nan" for a missing cell,      *)
(*    k = "ts" with v = <<instant>> once parsed, k = "nat" for NaT.        *)
(*  - pandasStrict tells which object-dtype rule the installed pandas      *)
(*    follows: from 2.0 on is_string_dtype is true of an object column     *)
(*    only when every cell is a string, before it is true of any object    *)
(*    column.                                                              *)
(*  - sort_values / value_counts order ties as numpy's default sort does   *)
(*    on short arrays (insertion sort: equal keys keep their order).       *)
(***************************************************************************)
EXTENDS Integers, Sequences, FiniteSets, TLC

VARIABLES sheets_data, pandasStrict, snapshot, call, ret

vars == <<sheets_data, pandasStrict, snapshot, call, ret>>

\* ------------------------------------------------------------------ bounds
MaxRows == 3
MaxLimit == 2
MaxMonthsBack == 2

\* ------------------------------------------------------------- cell values
NaN == 0

NaT == [k |-> "nat", v |-> <<>>]

NaNCell == [k |-> "nan", v |-> <<>>]

Txt(y, mo, d, h, mi, s) == [k |-> "str", v |-> <<y, mo, d, h, mi, s>>]

Stamp(t) == [k |-> "ts", v |-> <<t>>]

\* A naive wall-clock instant, in seconds; months are given 31 day slots so
\* that the encoding is injective and keeps the order of the date fields.
Instant(y, mo, d, h, mi, s) ==
    (((((y - 2024) * 12 + (mo - 1)) * 31 + (d - 1)) * 24 + h) * 60 + mi) * 60 + s

\* Does the text match the date + time pattern?
ValidText(v) ==
    /\ Len(v) = 6
    /\ v[2] \in 1..12
    /\ v[3] \in 1..31
    /\ v[4] \in 0..23
    /\ v[5] \in 0..59
    /\ v[6] \in 0..59

\* pd.to_datetime(cell, errors='coerce')
to_datetime(c) ==
    IF c.k = "str"
    THEN IF ValidText(c.v)
         THEN Stamp(Instant(c.v[1], c.v[2], c.v[3], c.v[4], c.v[5], c.v[6]))
         ELSE NaT
    ELSE IF c.k = "nan" THEN NaT ELSE c

\* strftime('%Y-%m-%d %H:%M:%S'): the seconds are kept
strftime_second(t) == t

\* strftime('%Y-%m-%d %H:%M'): the instant without its seconds
strftime_minute(t) == t \div 60

\* the timestamp itself instead of its date
dt_timestamp(t) == t

\* .dt.date
dt_date(t) == t \div 86400

\* .dt.to_period('M')
to_period_M(t) == t \div (86400 * 31)

\* --------------------------------------------------------------- DataFrames
EmptyDF == [cols |-> {}, rows |-> <<>>]

\* The subsequence of s at the indices in idx, in order.
TakeIdx(s, idx) ==
    [p \in 1..Cardinality(idx) |->
        s[CHOOSE i \in idx : Cardinality({j \in idx : j < i}) = p - 1]]

\* The members of a finite set of integers in ascending order.
SortedSeq(S) ==
    [p \in 1..Cardinality(S) |->
        CHOOSE x \in S : Cardinality({y \in S : y < x}) = p - 1]

\* s.head(limit)
head(s, limit) == IF Len(s) <= limit THEN s ELSE SubSeq(s, 1, limit)

\* pd.to_datetime(df['obsDt'], errors='coerce') assigned back to the column
ParseColumn(df) ==
    [df EXCEPT !.rows =
        [i \in DOMAIN df.rows |->
            [df.rows[i] EXCEPT !.obsDt = to_datetime(@)]]]

is_datetime64_dtype(df) ==
    /\ "obsDt" \in df.cols
    /\ \A i \in DOMAIN df.rows : df.rows[i].obsDt.k \in {"ts", "nat"}

\* read_csv gives float64 to a column with no value at all
is_float_dtype(df, col) ==
    /\ col \in df.cols
    /\ df.rows # <<>>
    /\ \A i \in DOMAIN df.rows :
          IF col = "obsDt" THEN df.rows[i].obsDt.k = "nan"
                           ELSE df.rows[i][col] = NaN

is_string_dtype(df) ==
    /\ "obsDt" \in df.cols
    /\ ~(df.rows # <<>> /\ is_datetime64_dtype(df))
    /\ ~is_float_dtype(df, "obsDt")
    /\ pandasStrict => \A i \in DOMAIN df.rows : df.rows[i].obsDt.k = "str"

\* the window with its end left out
InWindowOpenEnd(c, start_date, end_date) ==
    /\ c.k = "ts"
    /\ c.v[1] >= start_date
    /\ c.v[1] < end_date

\* (col >= start) & (col <= end) on a datetime64 column; NaT compares false
InWindow(c, start_date, end_date) ==
    /\ c.k = "ts"
    /\ c.v[1] >= start_date
    /\ c.v[1] <= end_date

MaskRows(rows, start_date, end_date) ==
    LET Test(r) == InWindow(r.obsDt, start_date, end_date)
    IN  SelectSeq(rows, Test)

\* filter_data_by_date: [exc |-> the comparison raised, df |-> the result]
filter_data_by_date(df, start_date, end_date) ==
    IF df.rows = <<>> \/ "obsDt" \notin df.cols
    THEN [exc |-> FALSE, df |-> EmptyDF]
    ELSE LET filtered_df == IF is_string_dtype(df) THEN ParseColumn(df) ELSE df
         IN  IF ~is_datetime64_dtype(filtered_df)
             THEN [exc |-> TRUE, df |-> EmptyDF]
             ELSE [exc |-> FALSE,
                   df  |-> [cols |-> df.cols,
                            rows |-> MaskRows(filtered_df.rows, start_date, end_date)]]

\* the (species, time_key) pair a row is deduplicated on
DedupKey(r, species_col) == <<r[species_col], strftime_minute(r.obsDt.v[1])>>

\* a seen-flag that is flipped instead of set: every second row of a key
\* is dropped
FirstOfKeyToggled(rows, species_col) ==
    {i \in DOMAIN rows :
        Cardinality({j \in 1..(i - 1) :
            DedupKey(rows[j], species_col) = DedupKey(rows[i], species_col)}) % 2 = 0}

\* indices of the rows whose key no earlier row carries
FirstOfKey(rows, species_col) ==
    {i \in DOMAIN rows :
        \A j \in 1..(i - 1) :
            DedupKey(rows[j], species_col) # DedupKey(rows[i], species_col)}

\* no deduplication: every row is kept
keep_all(rows, species_col) == rows

\* drop_duplicates(subset=[species_col, 'time_key']) (keep='first')
drop_duplicates(rows, species_col) ==
    TakeIdx(rows, FirstOfKey(rows, species_col))

\* ------------------------------------------------------------------ sorting
\* Position of entry i when the keys are sorted in descending order with
\* equal keys left in their order (sort_values(ascending=False)).
RankDesc(keys, i) ==
    Cardinality({j \in DOMAIN keys :
                    keys[j] > keys[i] \/ (keys[j] = keys[i] /\ j < i)}) + 1

RankAsc(keys, i) ==
    Cardinality({j \in DOMAIN keys :
                    keys[j] < keys[i] \/ (keys[j] = keys[i] /\ j < i)}) + 1

\* s reordered by the integer keys (keys[i] is the key of s[i])
sort_values_desc(s, keys) ==
    [p \in DOMAIN s |-> s[CHOOSE i \in DOMAIN s : RankDesc(keys, i) = p]]

sort_values_asc(s, keys) ==
    [p \in DOMAIN s |-> s[CHOOSE i \in DOMAIN s : RankAsc(keys, i) = p]]

\* lexicographic order on integer tuples of one length (groupby key order)
TupleLess(a, b) ==
    \E i \in DOMAIN a :
        /\ a[i] < b[i]
        /\ \A j \in 1..(i - 1) : a[j] = b[j]

SortedTuples(S) ==
    [p \in 1..Cardinality(S) |->
        CHOOSE x \in S : Cardinality({y \in S : TupleLess(y, x)}) = p - 1]

\* index of the first entry of vals equal to x
FirstIndex(vals, x) ==
    CHOOSE i \in DOMAIN vals :
        /\ vals[i] = x
        /\ \A j \in 1..(i - 1) : vals[j] # x

Count(vals, x) == Cardinality({i \in DOMAIN vals : vals[i] = x})

\* value_counts with equal counts in label order
value_counts_by_label(vals) ==
    LET keys == {vals[i] : i \in DOMAIN vals} \ {NaN}
        Before(a, b) ==
            \/ Count(vals, a) > Count(vals, b)
            \/ (Count(vals, a) = Count(vals, b) /\ a < b)
    IN  [p \in 1..Cardinality(keys) |->
            LET k == CHOOSE x \in keys :
                        Cardinality({y \in keys : Before(y, x)}) = p - 1
            IN  [label |-> k, count |-> Count(vals, k)]]

\* Series.value_counts(): NaN dropped, one (label, count) entry per value,
\* descending by count, equal counts in the order of first appearance
value_counts(vals) ==
    LET keys == {vals[i] : i \in DOMAIN vals} \ {NaN}
        Before(a, b) ==
            \/ Count(vals, a) > Count(vals, b)
            \/ /\ Count(vals, a) = Count(vals, b)
               /\ FirstIndex(vals, a) < FirstIndex(vals, b)
    IN  [p \in 1..Cardinality(keys) |->
            LET k == CHOOSE x \in keys :
                        Cardinality({y \in keys : Before(y, x)}) = p - 1
            IN  [label |-> k, count |-> Count(vals, k)]]

Column(rows, col) == [i \in DOMAIN rows |-> rows[i][col]]

\* the same count taken after the (species, minute) deduplication
groupby_nunique_deduped(rows, by, col) ==
    LET kept == drop_duplicates(rows, col)
        keys == SortedSeq({kept[i][by] : i \in DOMAIN kept} \ {NaN})
    IN  [p \in DOMAIN keys |->
            [label |-> keys[p],
             count |-> Cardinality({kept[i][col] : i \in
                          {j \in DOMAIN kept : kept[j][by] = keys[p]}} \ {NaN})]]

\* groupby(by)[col].nunique(): one entry per non-missing group key, in key
\* order, counting the distinct non-missing values of col
groupby_nunique(rows, by, col) ==
    LET keys == SortedSeq({rows[i][by] : i \in DOMAIN rows} \ {NaN})
    IN  [p \in DOMAIN keys |->
            [label |-> keys[p],
             count |-> Cardinality({rows[i][col] : i \in
                          {j \in DOMAIN rows : rows[j][by] = keys[p]}} \ {NaN})]]

\* ------------------------------------------------------- source selection
Compiled == "checklists_compilados"

Observations == "observations_L2015671"

Checklists == "checklists_L2015671"

Feed == "checklist_feed_L2015671_2025-01"

\* the last name of the priority list present in the source map
LastPresent(sd, names) ==
    IF \E i \in DOMAIN names : names[i] \in DOMAIN sd
    THEN names[CHOOSE i \in DOMAIN names :
                 /\ names[i] \in DOMAIN sd
                 /\ \A j \in (i + 1)..Len(names) : names[j] \notin DOMAIN sd]
    ELSE ""

\* first name of the priority list present in the source map, "" if none
FirstPresent(sd, names) ==
    IF \E i \in DOMAIN names : names[i] \in DOMAIN sd
    THEN names[CHOOSE i \in DOMAIN names :
                 /\ names[i] \in DOMAIN sd
                 /\ \A j \in 1..(i - 1) : names[j] \notin DOMAIN sd]
    ELSE ""

\* commonName before speciesCode (get_top_species, get_all_species, ...)
NameFirst(cols) ==
    IF "commonName" \in cols THEN "commonName"
    ELSE IF "speciesCode" \in cols THEN "speciesCode" ELSE ""

\* speciesCode before commonName (get_event_stats, get_top_observers, ...)
CodeFirst(cols) ==
    IF "speciesCode" \in cols THEN "speciesCode"
    ELSE IF "commonName" \in cols THEN "commonName" ELSE ""

\* what a query hands back: the source map as the call leaves it, the value
\* returned, whether the call raised, whether st.warning was called
Result(sd, out, exc, warn) ==
    [sheets |-> sd, out |-> out, exc |-> exc, warn |-> warn]

\* the same assignment with a format= that no cell of the sheets matches:
\* every cell of the shared column is coerced to NaT
ParseInPlaceFormat(sd, name) ==
    IF is_string_dtype(sd[name])
    THEN [sd EXCEPT ![name].rows =
             [i \in DOMAIN @ |-> [@[i] EXCEPT !.obsDt = NaT]]]
    ELSE sd

\* df['obsDt'] = pd.to_datetime(df['obsDt'], errors='coerce') on the table
\* held by the source map, when the column is of string dtype
ParseInPlace(sd, name) ==
    IF is_string_dtype(sd[name])
    THEN [sd EXCEPT ![name] = ParseColumn(@)]
    ELSE sd

\* ----------------------------------------------------------------- queries
\* get_event_stats with the source chain of the ranking queries: the
\* observations sheet when the compiled one is absent
get_event_stats_fallback(sd, start_date, end_date) ==
    LET src == FirstPresent(sd, <<Compiled, Observations>>) IN
    IF src = ""
    THEN Result(sd, [especies |-> 0, listas |-> 0, observadores |-> 0], FALSE, FALSE)
    ELSE
    LET sd1 == IF "obsDt" \in sd[src].cols
               THEN ParseInPlace(sd, src) ELSE sd
        obs_df == sd1[src]
        filtered_df == IF is_datetime64_dtype(obs_df)
                       THEN MaskRows(obs_df.rows, start_date, end_date)
                       ELSE obs_df.rows
        species_col == CodeFirst(obs_df.cols)
        \* row['obsDt'] (KeyError) or obs_dt.strftime (AttributeError)
        raises == /\ species_col # ""
                  /\ filtered_df # <<>>
                  /\ ~is_datetime64_dtype(obs_df)
        \* rows whose species_time_key was not yet in unique_species_time
        fresh == FirstOfKey(filtered_df, species_col)
        named == {filtered_df[i][species_col] : i \in fresh} \ {NaN}
        \* a missing species is the float nan: one object per row when the
        \* column is float64, the shared np.nan when it is an object column
        missing == {i \in fresh : filtered_df[i][species_col] = NaN}
        nans == IF is_float_dtype(obs_df, species_col)
                THEN Cardinality(missing)
                ELSE IF missing # {} THEN 1 ELSE 0
        unique_species == IF species_col = "" THEN 0
                          ELSE Cardinality(named) + nans
        unique_observers ==
            IF "userDisplayName" \in obs_df.cols
            THEN Cardinality({filtered_df[i].userDisplayName : i \in DOMAIN filtered_df})
            ELSE 0
        unique_checklists ==
            IF "subId" \in obs_df.cols
            THEN Cardinality({filtered_df[i].subId : i \in DOMAIN filtered_df})
            ELSE 0
    IN  IF raises THEN Result(sd1, <<>>, TRUE, FALSE)
        ELSE Result(sd1, [especies |-> unique_species,
                          listas |-> unique_checklists,
                          observadores |-> unique_observers], FALSE, FALSE)

\* get_event_stats
get_event_stats(sd, start_date, end_date) ==
    IF Compiled \notin DOMAIN sd
    THEN Result(sd, [especies |-> 0, listas |-> 0, observadores |-> 0], FALSE, FALSE)
    ELSE
    LET sd1 == IF "obsDt" \in sd[Compiled].cols
               THEN ParseInPlace(sd, Compiled) ELSE sd
        obs_df == sd1[Compiled]
        filtered_df == IF is_datetime64_dtype(obs_df)
                       THEN MaskRows(obs_df.rows, start_date, end_date)
                       ELSE obs_df.rows
        species_col == CodeFirst(obs_df.cols)
        \* row['obsDt'] (KeyError) or obs_dt.strftime (AttributeError)
        raises == /\ species_col # ""
                  /\ filtered_df # <<>>
                  /\ ~is_datetime64_dtype(obs_df)
        \* rows whose species_time_key was not yet in unique_species_time
        fresh == FirstOfKey(filtered_df, species_col)
        named == {filtered_df[i][species_col] : i \in fresh} \ {NaN}
        \* a missing species is the float nan: one object per row when the
        \* column is float64, the shared np.nan when it is an object column
        missing == {i \in fresh : filtered_df[i][species_col] = NaN}
        nans == IF is_float_dtype(obs_df, species_col)
                THEN Cardinality(missing)
                ELSE IF missing # {} THEN 1 ELSE 0
        unique_species == IF species_col = "" THEN 0
                          ELSE Cardinality(named) + nans
        unique_observers ==
            IF "userDisplayName" \in obs_df.cols
            THEN Cardinality({filtered_df[i].userDisplayName : i \in DOMAIN filtered_df})
            ELSE 0
        unique_checklists ==
            IF "subId" \in obs_df.cols
            THEN Cardinality({filtered_df[i].subId : i \in DOMAIN filtered_df})
            ELSE 0
    IN  IF raises THEN Result(sd1, <<>>, TRUE, FALSE)
        ELSE Result(sd1, [especies |-> unique_species,
                          listas |-> unique_checklists,
                          observadores |-> unique_observers], FALSE, FALSE)

\* the columns get_latest_species and get_first_species_records select
SpeciesRecord(r, species_col, cols) ==
    [obsDt |-> r.obsDt.v[1],
     commonName |-> r[species_col],
     scientificName |-> IF "scientificName" \in cols THEN r.scientificName ELSE NaN,
     userDisplayName |-> IF "userDisplayName" \in cols THEN r.userDisplayName ELSE NaN]

InstantOf(rows) == [i \in DOMAIN rows |-> rows[i].obsDt.v[1]]

\* get_latest_species
get_latest_species(sd, start_date, end_date, limit) ==
    LET name == FirstPresent(sd, <<Compiled, Observations>>)
    IN
    IF name = "" THEN Result(sd, <<>>, FALSE, FALSE)
    ELSE IF "obsDt" \notin sd[name].cols THEN Result(sd, <<>>, FALSE, TRUE)
    ELSE IF NameFirst(sd[name].cols) = "" THEN Result(sd, <<>>, FALSE, TRUE)
    ELSE
    LET species_col == NameFirst(sd[name].cols)
        sd1 == ParseInPlace(sd, name)
        f == filter_data_by_date(sd1[name], start_date, end_date)
        df_sorted == sort_values_desc(f.df.rows, InstantOf(f.df.rows))
        latest == head(df_sorted, limit)
    IN  IF f.exc THEN Result(sd1, <<>>, TRUE, FALSE)
        ELSE Result(sd1,
                    [i \in DOMAIN latest |->
                        SpeciesRecord(latest[i], species_col, sd[name].cols)],
                    FALSE, FALSE)

\* sort key of an obsDt cell that was not converted (text compares as text)
RawKey(c) ==
    IF c.k = "ts" THEN c.v[1]
    ELSE IF c.k = "str" /\ ValidText(c.v)
         THEN Instant(c.v[1], c.v[2], c.v[3], c.v[4], c.v[5], c.v[6])
         ELSE 2000000000

\* get_latest_checklists
get_latest_checklists(sd, start_date, end_date, limit) ==
    LET name == FirstPresent(sd, <<Compiled, Observations, Feed>>)
    IN
    IF name = "" THEN Result(sd, <<>>, FALSE, FALSE)
    ELSE IF "obsDt" \notin sd[name].cols \/ "subId" \notin sd[name].cols
    THEN Result(sd, <<>>, FALSE, TRUE)
    ELSE
    LET sd1 == ParseInPlace(sd, name)
        df == sd1[name]
        isdt == is_datetime64_dtype(df)
        filtered_df == IF isdt THEN MaskRows(df.rows, start_date, end_date)
                       ELSE df.rows
        user(r) == IF "userDisplayName" \in df.cols THEN r.userDisplayName ELSE 1
        \* groupby(['subId', 'obsDt', 'userDisplayName']): rows with a
        \* missing key are left out, groups come in key order
        usable == {i \in DOMAIN filtered_df :
                      /\ filtered_df[i].subId # NaN
                      /\ filtered_df[i].obsDt.k \in {"ts", "str"}
                      /\ user(filtered_df[i]) # NaN}
        KeyOf(i) == <<filtered_df[i].subId, RawKey(filtered_df[i].obsDt),
                      user(filtered_df[i])>>
        checklists == SortedTuples({KeyOf(i) : i \in usable})
        checklists_sorted ==
            sort_values_desc(checklists, [i \in DOMAIN checklists |-> checklists[i][2]])
        latest == head(checklists_sorted, limit)
    IN  Result(sd1,
               IF filtered_df = <<>> THEN <<>>
               ELSE [i \in DOMAIN latest |->
                       [subId |-> latest[i][1],
                        obsDt |-> latest[i][2],
                        userDisplayName |-> latest[i][3],
                        num_especies |->
                            Cardinality({j \in usable : KeyOf(j) = latest[i]})]],
               FALSE, ~isdt)

\* get_top_species
get_top_species(sd, start_date, end_date, limit) ==
    LET name == FirstPresent(sd, <<Compiled, Observations>>)
    IN
    IF name = "" THEN Result(sd, <<>>, FALSE, FALSE)
    ELSE IF "obsDt" \notin sd[name].cols THEN Result(sd, <<>>, FALSE, TRUE)
    ELSE IF NameFirst(sd[name].cols) = "" THEN Result(sd, <<>>, FALSE, TRUE)
    ELSE
    LET species_col == NameFirst(sd[name].cols)
        f == filter_data_by_date(sd[name], start_date, end_date)
        unique_df == drop_duplicates(f.df.rows, species_col)
        species_counts == value_counts(Column(unique_df, species_col))
    IN  IF f.exc THEN Result(sd, <<>>, TRUE, FALSE)
        ELSE Result(sd, head(species_counts, limit), FALSE, FALSE)

CountOf(ranking) == [i \in DOMAIN ranking |-> ranking[i].count]

\* get_top_observers
get_top_observers(sd, start_date, end_date, limit) ==
    LET name == FirstPresent(sd, <<Compiled, Observations>>)
    IN
    IF name = "" THEN Result(sd, <<>>, FALSE, FALSE)
    ELSE IF "obsDt" \notin sd[name].cols \/ "userDisplayName" \notin sd[name].cols
    THEN Result(sd, <<>>, FALSE, TRUE)
    ELSE
    LET f == filter_data_by_date(sd[name], start_date, end_date)
        count_column == CodeFirst(f.df.cols)
        observer_counts ==
            IF count_column = ""
            THEN value_counts(Column(f.df.rows, "userDisplayName"))
            ELSE groupby_nunique(f.df.rows, "userDisplayName", count_column)
        top_observers == sort_values_desc(observer_counts, CountOf(observer_counts))
    IN  IF f.exc THEN Result(sd, <<>>, TRUE, FALSE)
        ELSE IF f.df.rows = <<>> THEN Result(sd, <<>>, FALSE, FALSE)
        ELSE Result(sd, head(top_observers, limit), FALSE, FALSE)

\* the rows of each observer counted instead of the distinct checklists
observer_rows(rows) ==
    LET named == {i \in DOMAIN rows :
                     rows[i].userDisplayName # NaN /\ rows[i].subId # NaN}
        keys == SortedSeq({rows[i].userDisplayName : i \in named})
    IN  [p \in DOMAIN keys |->
            [label |-> keys[p],
             count |-> Cardinality({i \in named :
                                      rows[i].userDisplayName = keys[p]})]]

\* groupby(['userDisplayName', 'subId']).size() then groupby('userDisplayName')
\* .size(): the distinct checklists of each observer, observers in key order
observer_lists(rows) ==
    LET pairs == {<<rows[i].userDisplayName, rows[i].subId>> : i \in
                     {j \in DOMAIN rows :
                         rows[j].userDisplayName # NaN /\ rows[j].subId # NaN}}
        keys == SortedSeq({pr[1] : pr \in pairs})
    IN  [p \in DOMAIN keys |->
            [label |-> keys[p],
             count |-> Cardinality({pr \in pairs : pr[1] = keys[p]})]]

\* get_top_observers_by_lists
get_top_observers_by_lists(sd, start_date, end_date, limit) ==
    LET name == FirstPresent(sd, <<Compiled, Checklists>>)
    IN
    IF name = "" THEN Result(sd, <<>>, FALSE, FALSE)
    ELSE IF \/ "obsDt" \notin sd[name].cols
            \/ "userDisplayName" \notin sd[name].cols
            \/ "subId" \notin sd[name].cols
    THEN Result(sd, <<>>, FALSE, TRUE)
    ELSE
    LET f == filter_data_by_date(sd[name], start_date, end_date)
        observer_counts == observer_lists(f.df.rows)
        top_observers == sort_values_desc(observer_counts, CountOf(observer_counts))
    IN  IF f.exc THEN Result(sd, <<>>, TRUE, FALSE)
        ELSE Result(sd, head(top_observers, limit), FALSE, FALSE)

\* indices of the first row of each value of col (drop_duplicates keep='first')
FirstOfValue(rows, col) ==
    {i \in DOMAIN rows : \A j \in 1..(i - 1) : rows[j][col] # rows[i][col]}

\* get_first_species_records
get_first_species_records(sd, start_date, end_date, limit) ==
    LET name == FirstPresent(sd, <<Compiled, Observations>>)
    IN
    IF name = "" THEN Result(sd, <<>>, FALSE, FALSE)
    ELSE IF "obsDt" \notin sd[name].cols THEN Result(sd, <<>>, FALSE, TRUE)
    ELSE IF NameFirst(sd[name].cols) = "" THEN Result(sd, <<>>, FALSE, TRUE)
    ELSE
    LET species_col == NameFirst(sd[name].cols)
        sd1 == ParseInPlace(sd, name)
        f == filter_data_by_date(sd1[name], start_date, end_date)
        df_sorted == sort_values_asc(f.df.rows, InstantOf(f.df.rows))
        first_records == TakeIdx(df_sorted, FirstOfValue(df_sorted, species_col))
        first_records_sorted ==
            sort_values_desc(first_records, InstantOf(first_records))
        result == head(first_records_sorted, limit)
    IN  IF f.exc THEN Result(sd1, <<>>, TRUE, FALSE)
        ELSE Result(sd1,
                    [i \in DOMAIN result |->
                        SpeciesRecord(result[i], species_col, sd[name].cols)],
                    FALSE, FALSE)

\* get_all_species
get_all_species(sd, start_date, end_date) ==
    LET name == FirstPresent(sd, <<Compiled, Observations>>)
    IN
    IF name = "" THEN Result(sd, <<>>, FALSE, TRUE)
    ELSE IF "obsDt" \notin sd[name].cols THEN Result(sd, <<>>, FALSE, TRUE)
    ELSE
    LET f == filter_data_by_date(sd[name], start_date, end_date)
        filtered_obs == f.df.rows
        cols == f.df.cols
        species_col == NameFirst(cols)
        has_taxon_order == "taxonOrder" \in cols
        unique_obs == drop_duplicates(filtered_obs, species_col)
        \* groupby(columns_to_group).size(): a row with a missing cell in
        \* any grouping column belongs to no group
        GroupKey(r) ==
            <<r[species_col],
              IF "scientificName" \in cols THEN r.scientificName ELSE 1,
              IF "familySciName" \in cols THEN r.familySciName ELSE 1,
              IF has_taxon_order THEN r.taxonOrder ELSE 1>>
        grouped == {i \in DOMAIN unique_obs :
                       \A c \in 1..4 : GroupKey(unique_obs[i])[c] # NaN}
        species_counts == SortedTuples({GroupKey(unique_obs[i]) : i \in grouped})
        \* pd.to_numeric(errors='coerce'): text that is no number (negative
        \* here) becomes NaN, which sort_values puts last
        numeric == [i \in DOMAIN species_counts |->
                      IF species_counts[i][4] > 0 THEN species_counts[i][4]
                      ELSE 2000000000]
        sorted == IF has_taxon_order
                  THEN sort_values_asc(species_counts, numeric)
                  ELSE sort_values_asc(species_counts,
                          [i \in DOMAIN species_counts |-> species_counts[i][1]])
    IN  IF f.exc THEN Result(sd, <<>>, TRUE, FALSE)
        ELSE IF filtered_obs = <<>> THEN Result(sd, <<>>, FALSE, TRUE)
        ELSE IF species_col = "" THEN Result(sd, <<>>, FALSE, TRUE)
        ELSE Result(sd,
                    [i \in DOMAIN sorted |->
                        [nome |-> sorted[i][1],
                         cientifico |-> IF "scientificName" \in cols
                                        THEN sorted[i][2] ELSE NaN,
                         familia |-> IF "familySciName" \in cols
                                     THEN sorted[i][3] ELSE NaN,
                         contagens |-> Cardinality({j \in grouped :
                                          GroupKey(unique_obs[j]) = sorted[i]})]],
                    FALSE, FALSE)

\* get_daily_trend
get_daily_trend(sd, start_date, end_date) ==
    LET name == FirstPresent(sd, <<Compiled, Observations>>)
    IN
    IF name = "" THEN Result(sd, <<>>, FALSE, FALSE)
    ELSE IF "obsDt" \notin sd[name].cols THEN Result(sd, <<>>, FALSE, TRUE)
    ELSE
    LET f == filter_data_by_date(sd[name], start_date, end_date)
        rows == f.df.rows
        species_col == CodeFirst(f.df.cols)
        days == SortedSeq({dt_date(rows[i].obsDt.v[1]) : i \in DOMAIN rows})
        OfDay(d) == {i \in DOMAIN rows : dt_date(rows[i].obsDt.v[1]) = d}
    IN  IF f.exc THEN Result(sd, <<>>, TRUE, FALSE)
        ELSE Result(sd,
                    [p \in DOMAIN days |->
                        [data |-> days[p],
                         num_especies |->
                            IF species_col = "" THEN 0
                            ELSE Cardinality({rows[i][species_col] :
                                               i \in OfDay(days[p])} \ {NaN}),
                         num_observacoes |-> Cardinality(OfDay(days[p]))]],
                    FALSE, FALSE)

\* the checklists of month m that fall in the event period only
monthly_lists_of_event(rows, m) ==
    {rows[i].subId : i \in
        {j \in DOMAIN rows :
            /\ rows[j].obsDt.k = "ts"
            /\ to_period_M(rows[j].obsDt.v[1]) = m
            /\ rows[j].obsDt.v[1] >= Instant(2025, 5, 16, 0, 0, 0)
            /\ rows[j].obsDt.v[1] <= Instant(2025, 5, 18, 23, 59, 59)}}

\* drop_duplicates(['month_year', 'subId']) then groupby('month_year').size():
\* the distinct checklists of month m; rows whose month is NaT form no group
monthly_lists(rows, m) ==
    {rows[i].subId : i \in
        {j \in DOMAIN rows :
            /\ rows[j].obsDt.k = "ts"
            /\ to_period_M(rows[j].obsDt.v[1]) = m}}

\* an inner merge: only the months that have a checklist
complete_df_inner(rows, start_period, end_period) ==
    LET months == SortedSeq({m \in start_period..end_period :
                                monthly_lists(rows, m) # {}})
    IN  [p \in DOMAIN months |->
            [month_year |-> months[p],
             num_checklists |-> Cardinality(monthly_lists(rows, months[p]))]]

\* the left merge of pd.period_range(start, end, freq='M') with the monthly
\* counts, fillna(0): one entry for every month of the range
complete_df(rows, start_period, end_period) ==
    [p \in 1..(end_period - start_period + 1) |->
        [month_year |-> start_period + p - 1,
         num_checklists |-> Cardinality(monthly_lists(rows, start_period + p - 1))]]

\* get_monthly_checklists_history
get_monthly_checklists_history(sd, end_date, months_back) ==
    LET name == FirstPresent(sd, <<Compiled, Checklists>>)
    IN
    IF name = "" THEN Result(sd, <<>>, FALSE, TRUE)
    ELSE IF "obsDt" \notin sd[name].cols \/ "subId" \notin sd[name].cols
    THEN Result(sd, <<>>, FALSE, TRUE)
    ELSE
    LET sd1 == ParseInPlace(sd, name)
        df == sd1[name]
        end_period == to_period_M(end_date)
        start_period == end_period - months_back
    IN  \* df_copy['obsDt'].dt raises unless the column is datetime64
        IF ~is_datetime64_dtype(df) THEN Result(sd1, <<>>, TRUE, FALSE)
        ELSE Result(sd1, complete_df(df.rows, start_period, end_period), FALSE, FALSE)

\* -------------------------------------------------------------- the inputs
Row(ts, code, name, obs, sub) ==
    [obsDt |-> ts, speciesCode |-> code, commonName |-> name,
     userDisplayName |-> obs, subId |-> sub,
     scientificName |-> name, familySciName |-> 1, taxonOrder |-> code]

\* a row as it is read from a sheet that has only the columns cols
Project(r, cols) ==
    [c \in DOMAIN r |->
        IF c \in cols THEN r[c]
        ELSE IF c = "obsDt" THEN NaNCell ELSE NaN]

AllCols == {"obsDt", "speciesCode", "commonName", "userDisplayName", "subId"}

\* the analysis period of the dashboard and its first day
start_datetime == Instant(2025, 5, 16, 0, 0, 0)

end_datetime == Instant(2025, 5, 18, 23, 59, 59)

Windows ==
    {[start_date |-> start_datetime, end_date |-> end_datetime],
     [start_date |-> start_datetime, end_date |-> Instant(2025, 5, 16, 23, 59, 59)]}

\* sheets of at most MaxRows rows drawn from pool, with the columns cols
Tables(pool, cols) ==
    UNION {[1..n -> {Project(r, cols) : r \in pool}] : n \in 1..MaxRows}

Idle == [fn |-> "idle", sheet |-> "", start_date |-> 0, end_date |-> 0, limit |-> 0]

NoRet == [out |-> <<>>, exc |-> FALSE, warn |-> FALSE]

\* the loader returned sheets named as in one of maps, every one holding
\* the same rows; no query has run
InitWith(pool, colsets, maps, builds) ==
    /\ pandasStrict \in builds
    /\ \E cols \in colsets, names \in maps :
          \E rows \in Tables(pool, cols) :
             sheets_data = [n \in names |-> [cols |-> cols, rows |-> rows]]
    /\ snapshot = sheets_data
    /\ call = Idle
    /\ ret = NoRet

\* ------------------------------------------------------------- the actions
\* the rendering pass runs one query and keeps what it returned
Finish(fn, start_date, end_date, limit, r) ==
    /\ call' = [fn |-> fn, sheet |-> "", start_date |-> start_date,
                end_date |-> end_date, limit |-> limit]
    /\ ret' = [out |-> r.out, exc |-> r.exc, warn |-> r.warn]
    /\ sheets_data' = r.sheets
    /\ UNCHANGED <<pandasStrict, snapshot>>

GetEventStats ==
    /\ call.fn = "idle"
    /\ \E w \in Windows :
          Finish("get_event_stats", w.start_date, w.end_date, 0,
                 get_event_stats(sheets_data, w.start_date, w.end_date))

GetLatestSpecies ==
    /\ call.fn = "idle"
    /\ \E w \in Windows, limit \in 1..MaxLimit :
          Finish("get_latest_species", w.start_date, w.end_date, limit,
                 get_latest_species(sheets_data, w.start_date, w.end_date, limit))

GetLatestChecklists ==
    /\ call.fn = "idle"
    /\ \E w \in Windows, limit \in 1..MaxLimit :
          Finish("get_latest_checklists", w.start_date, w.end_date, limit,
                 get_latest_checklists(sheets_data, w.start_date, w.end_date, limit))

GetTopSpecies ==
    /\ call.fn = "idle"
    /\ \E w \in Windows, limit \in 1..MaxLimit :
          Finish("get_top_species", w.start_date, w.end_date, limit,
                 get_top_species(sheets_data, w.start_date, w.end_date, limit))

GetTopObservers ==
    /\ call.fn = "idle"
    /\ \E w \in Windows, limit \in 1..MaxLimit :
          Finish("get_top_observers", w.start_date, w.end_date, limit,
                 get_top_observers(sheets_data, w.start_date, w.end_date, limit))

GetTopObserversByLists ==
    /\ call.fn = "idle"
    /\ \E w \in Windows, limit \in 1..MaxLimit :
          Finish("get_top_observers_by_lists", w.start_date, w.end_date, limit,
                 get_top_observers_by_lists(sheets_data, w.start_date, w.end_date, limit))

GetFirstSpeciesRecords ==
    /\ call.fn = "idle"
    /\ \E w \in Windows, limit \in 1..MaxLimit :
          Finish("get_first_species_records", w.start_date, w.end_date, limit,
                 get_first_species_records(sheets_data, w.start_date, w.end_date, limit))

GetAllSpecies ==
    /\ call.fn = "idle"
    /\ \E w \in Windows :
          Finish("get_all_species", w.start_date, w.end_date, 0,
                 get_all_species(sheets_data, w.start_date, w.end_date))

GetDailyTrend ==
    /\ call.fn = "idle"
    /\ \E w \in Windows :
          Finish("get_daily_trend", w.start_date, w.end_date, 0,
                 get_daily_trend(sheets_data, w.start_date, w.end_date))

GetMonthlyChecklistsHistory ==
    /\ call.fn = "idle"
    /\ \E months_back \in 0..MaxMonthsBack :
          Finish("get_monthly_checklists_history", 0, end_datetime, months_back,
                 get_monthly_checklists_history(sheets_data, end_datetime, months_back))

\* the filtering step on its own, on any sheet of the source map
FilterDataByDate ==
    /\ call.fn = "idle"
    /\ \E w \in Windows, name \in DOMAIN sheets_data :
          LET f == filter_data_by_date(sheets_data[name], w.start_date, w.end_date)
          IN  /\ call' = [fn |-> "filter_data_by_date", sheet |-> name,
                          start_date |-> w.start_date, end_date |-> w.end_date,
                          limit |-> 0]
              /\ ret' = [out |-> f.df.rows, exc |-> f.exc, warn |-> FALSE]
    /\ UNCHANGED <<sheets_data, pandasStrict, snapshot>>

\* the deduplication step of get_top_species and get_all_species on the
\* filtered rows, and again on what it returned; limit counts the passes
DropDuplicates ==
    /\ call.fn \in {"filter_data_by_date", "drop_duplicates"}
    /\ ~ret.exc
    /\ call.limit < 2
    /\ "obsDt" \in sheets_data[call.sheet].cols
    /\ NameFirst(sheets_data[call.sheet].cols) # ""
    /\ call' = [call EXCEPT !.fn = "drop_duplicates", !.limit = @ + 1]
    /\ ret' = [ret EXCEPT !.out =
                  drop_duplicates(@, NameFirst(sheets_data[call.sheet].cols))]
    /\ UNCHANGED <<sheets_data, pandasStrict, snapshot>>

\* main() shows the value and goes on to its next query; a call that raised
\* ends the pass
Display ==
    /\ call.fn # "idle"
    /\ ~ret.exc
    /\ call' = Idle
    /\ ret' = NoRet
    /\ UNCHANGED <<sheets_data, pandasStrict, snapshot>>

\* the script is run again: st.cache_data hands out a fresh copy of what
\* the loader returned
Rerun ==
    /\ call.fn # "idle"
    /\ sheets_data' = snapshot
    /\ call' = Idle
    /\ ret' = NoRet
    /\ UNCHANGED <<pandasStrict, snapshot>>

Next ==
    \/ GetEventStats
    \/ GetLatestSpecies
    \/ GetLatestChecklists
    \/ GetTopSpecies
    \/ GetTopObservers
    \/ GetTopObserversByLists
    \/ GetFirstSpeciesRecords
    \/ GetAllSpecies
    \/ GetDailyTrend
    \/ GetMonthlyChecklistsHistory
    \/ FilterDataByDate
    \/ DropDuplicates
    \/ Display
    \/ Rerun

\* ------------------------------------------------------- the input families
\* text ranks: species A (1) < B (2), observers Ana (1) < Zeca (2),
\* checklists S1 (1), S2 (2); the last row carries the text "not-a-date"
Sightings ==
    {Row(Txt(2025, 5, 16, 0, 0, 0), 1, 1, 2, 1),
     Row(Txt(2025, 5, 16, 0, 0, 30), 1, 1, 1, 2),
     Row(Txt(2025, 5, 17, 10, 0, 0), 1, 1, 1, 1),
     Row(Txt(2025, 5, 18, 23, 59, 59), 2, 2, 2, 1),
     Row(Txt(2025, 5, 15, 23, 59, 59), 2, 2, 1, 2),
     Row(Txt(2025, 4, 30, 23, 59, 59), 2, 2, 1, 1),
     Row(Txt(2025, 5, 19, 0, 0, 0), 1, 1, 2, 2),
     Row(Txt(2025, 5, 16, 0, 5, 0), NaN, NaN, 2, 1),
     Row(Txt(0, 0, 0, 0, 0, 0), 1, 1, 1, 2)}

\* every sheet complete and textual: what the rows say decides the results
Init == InitWith(Sightings, {AllCols}, {{Compiled}}, {TRUE})

Spec == Init /\ [][Next]_vars

\* sheets that lack columns, sheets that were not loaded, missing time cells
Shapes ==
    {Row(Txt(2025, 5, 16, 8, 0, 0), 1, 1, 2, 1),
     Row(NaNCell, 2, 2, 1, 2)}

InitShapes ==
    InitWith(Shapes, SUBSET AllCols \ {{}},
             {{Compiled}, {Observations}, {Checklists}, {Feed}}, BOOLEAN)

SpecShapes == InitShapes /\ [][Next]_vars

\* sheets with the taxonomy columns: a species whose rows disagree on the
\* scientific name (A), a species without one (C), a taxonOrder that is no
\* number (written as a negative value) and an empty one; taxonOrder runs
\* against the order of the names
CatalogRow(ts, name, sci, fam, taxon) ==
    [Row(ts, name, name, 1, 1) EXCEPT
        !.scientificName = sci, !.familySciName = fam, !.taxonOrder = taxon]

Catalogue ==
    {CatalogRow(Txt(2025, 5, 16, 8, 0, 0), 1, 1, 1, 30),
     CatalogRow(Txt(2025, 5, 16, 8, 1, 0), 2, 2, 1, 20),
     CatalogRow(Txt(2025, 5, 16, 8, 2, 0), 1, 4, 1, 30),
     CatalogRow(Txt(2025, 5, 16, 8, 3, 0), 3, NaN, 1, 10),
     CatalogRow(Txt(2025, 5, 16, 8, 4, 0), 3, 3, 1, -1),
     CatalogRow(Txt(2025, 5, 16, 8, 5, 0), 2, 2, 1, NaN)}

TaxonomyCols == {"scientificName", "familySciName", "taxonOrder"}

InitCatalog ==
    InitWith(Catalogue,
             {AllCols \cup TaxonomyCols, AllCols \cup {"taxonOrder"}, AllCols},
             {{Compiled}}, {TRUE})

SpecCatalog == InitCatalog /\ [][Next]_vars

\* source maps in which any of the four sheets may be missing and every
\* sheet has rows of its own: species, observer and checklist id tell the
\* sheets apart
SheetNames == {Compiled, Observations, Checklists, Feed}

SheetRows(n) ==
    IF n = Compiled THEN <<Row(Txt(2025, 5, 16, 8, 0, 0), 1, 1, 1, 1)>>
    ELSE IF n = Observations THEN <<Row(Txt(2025, 5, 16, 9, 0, 0), 2, 2, 2, 2)>>
    ELSE IF n = Checklists THEN <<Row(Txt(2025, 5, 17, 8, 0, 0), 3, 3, 3, 3)>>
    ELSE <<Row(Txt(2025, 5, 18, 8, 0, 0), 4, 4, 4, 4)>>

InitSources ==
    /\ pandasStrict \in BOOLEAN
    /\ \E names \in SUBSET SheetNames \ {{}} :
          sheets_data = [n \in names |-> [cols |-> AllCols, rows |-> SheetRows(n)]]
    /\ snapshot = sheets_data
    /\ call = Idle
    /\ ret = NoRet

SpecSources == InitSources /\ [][Next]_vars

\* codes and names that are not in one-to-one correspondence: one code
\* under two names (1: names 1 and 2), one name under two codes (3: codes 2
\* and 3)
Aliases ==
    {Row(Txt(2025, 5, 16, 8, 0, 0), 1, 1, 1, 1),
     Row(Txt(2025, 5, 16, 8, 1, 0), 1, 2, 1, 1),
     Row(Txt(2025, 5, 17, 8, 2, 0), 2, 3, 2, 2),
     Row(Txt(2025, 5, 17, 8, 3, 0), 3, 3, 2, 2)}

InitAliases == InitWith(Aliases, {AllCols}, {{Compiled}}, {TRUE})

SpecAliases == InitAliases /\ [][Next]_vars

\* ------------------------------------------------------------------ claims
\* The rows of the loaded sheet `name`, parsed, whose timestamp is an instant
\* t with s <= t <= e, in sheet order.
Observed(name, s, e) ==
    LET rows == ParseColumn(snapshot[name]).rows
    IN  TakeIdx(rows, {i \in DOMAIN rows :
                          /\ rows[i].obsDt.k = "ts"
                          /\ s <= rows[i].obsDt.v[1]
                          /\ rows[i].obsDt.v[1] <= e})

\* the species named by the rows (a missing cell names none)
Named(rows, col) == {rows[i][col] : i \in DOMAIN rows} \ {NaN}

RowsOf(rows, col, x) ==
    TakeIdx(rows, {i \in DOMAIN rows : rows[i][col] = x})

Labels(ranking) == {ranking[i].label : i \in DOMAIN ranking}

\* C1: deduplication is idempotent: the (species, minute) drop-duplicates
\* step applied to its own output returns the same rows in the same order.
C1_DedupeIdempotent ==
    [][(call'.fn = "drop_duplicates" /\ call'.limit = 2) => ret'.out = ret.out]_vars

\* the step ran twice on a filtered set from which the first pass removed rows
C1_Witness ==
    /\ call.fn = "drop_duplicates"
    /\ call.limit = 2
    /\ ret.out # <<>>
    /\ Len(ret.out) < Len(Observed(call.sheet, call.start_date, call.end_date))

\* C2: filter_data_by_date retains exactly the rows whose parsed timestamp t
\* satisfies start <= t <= end, the rows at t = start and t = end included.
C2_WindowInclusive ==
    (call.fn = "filter_data_by_date" /\ ~ret.exc)
        => ret.out = Observed(call.sheet, call.start_date, call.end_date)

\* a row at start and a row at end were kept, a row outside was dropped
C2_Witness ==
    /\ call.fn = "filter_data_by_date"
    /\ ~ret.exc
    /\ \E i \in DOMAIN ret.out : ret.out[i].obsDt.v[1] = call.start_date
    /\ \E i \in DOMAIN ret.out : ret.out[i].obsDt.v[1] = call.end_date
    /\ \E i \in DOMAIN snapshot[call.sheet].rows :
          LET c == to_datetime(snapshot[call.sheet].rows[i].obsDt)
          IN  c.k = "ts" /\ (c.v[1] < call.start_date \/ c.v[1] > call.end_date)

\* C3: 'especies' of get_event_stats is the number of distinct species keys
\* among the rows of dedupe(filter(S, W)).
C3_SpeciesCount ==
    (call.fn = "get_event_stats" /\ Compiled \in DOMAIN snapshot)
        => /\ ~ret.exc
           /\ LET col == NameFirst(snapshot[Compiled].cols)
                  rows == Observed(Compiled, call.start_date, call.end_date)
              IN  ret.out.especies =
                     IF col = "" THEN 0
                     ELSE Cardinality(Named(drop_duplicates(rows, col), col))

C5_ObserverTiesFirstEncounter ==
    (call.fn \in {"get_top_observers", "get_top_observers_by_lists"} /\ ~ret.exc)
        => LET name == FirstPresent(snapshot,
                          IF call.fn = "get_top_observers"
                          THEN <<Compiled, Observations>>
                          ELSE <<Compiled, Checklists>>)
               rows == Observed(name, call.start_date, call.end_date)
               users == Column(rows, "userDisplayName")
               counted == IF call.fn = "get_top_observers"
                          THEN CodeFirst(snapshot[name].cols) ELSE "subId"
               RefCount(u) ==
                   Cardinality(Named(RowsOf(rows, "userDisplayName", u), counted))
           IN  /\ \A i, j \in DOMAIN ret.out :
                     (i < j /\ ret.out[i].count = ret.out[j].count)
                        => FirstIndex(users, ret.out[i].label)
                              < FirstIndex(users, ret.out[j].label)
               /\ \A i \in DOMAIN ret.out :
                     \A u \in Named(rows, "userDisplayName") \ Labels(ret.out) :
                        RefCount(u) = ret.out[i].count
                           => FirstIndex(users, ret.out[i].label)
                                 < FirstIndex(users, u)

C7_SourcesUntouched == sheets_data = snapshot

\* C8: no query aborts; in particular get_event_stats returns a result on a
\* compiled sheet that has a species column and no obsDt column.
C8_EventStatsReturns ==
    (/\ call.fn = "get_event_stats"
     /\ Compiled \in DOMAIN snapshot
     /\ "obsDt" \notin snapshot[Compiled].cols)
        => ~ret.exc

\* C9: an aggregator query returns an empty result when a column it needs is
\* absent; in particular get_top_observers on a sheet with neither commonName
\* nor speciesCode.
C9_TopObserversEmptyWithoutSpecies ==
    LET name == FirstPresent(snapshot, <<Compiled, Observations>>)
    IN  (/\ call.fn = "get_top_observers"
         /\ ~ret.exc
         /\ name # ""
         /\ CodeFirst(snapshot[name].cols) = "")
            => ret.out = <<>>

\* C10: a row whose species is missing is never counted as a species, in
\* none of get_event_stats, get_top_species, get_all_species,
\* get_top_observers and get_daily_trend.
C10_MissingSpeciesNotCounted ==
    LET name == FirstPresent(snapshot, <<Compiled, Observations>>)
    IN  (/\ name # ""
         /\ ~ret.exc
         /\ "obsDt" \in snapshot[name].cols
         /\ CodeFirst(snapshot[name].cols) # "")
        => LET cols == snapshot[name].cols
               rows == Observed(name, call.start_date, call.end_date)
           IN  /\ (call.fn = "get_event_stats" /\ name = Compiled)
                     => ret.out.especies = Cardinality(Named(rows, CodeFirst(cols)))
               /\ call.fn = "get_top_species"
                     => \A i \in DOMAIN ret.out : ret.out[i].label # NaN
               /\ call.fn = "get_all_species"
                     => \A i \in DOMAIN ret.out : ret.out[i].nome # NaN
               /\ (call.fn = "get_top_observers" /\ "userDisplayName" \in cols)
                     => \A i \in DOMAIN ret.out :
                           ret.out[i].count =
                              Cardinality(Named(RowsOf(rows, "userDisplayName",
                                                       ret.out[i].label),
                                                CodeFirst(cols)))
               /\ call.fn = "get_daily_trend"
                     => \A i \in DOMAIN ret.out :
                           ret.out[i].num_especies =
                              Cardinality({x \in Named(rows, CodeFirst(cols)) :
                                 \E k \in DOMAIN rows :
                                    /\ rows[k][CodeFirst(cols)] = x
                                    /\ dt_date(rows[k].obsDt.v[1]) = ret.out[i].data})

\* does the obsDt cell of the row parse to an instant?
Parseable(r) == to_datetime(r.obsDt).k = "ts"

\* the source map the loader returns when the rows whose timestamp does not
\* parse are taken out of every sheet (a sheet left without rows is not kept)
WithoutInvalid(sd) ==
    LET keep == {n \in DOMAIN sd :
                    \E i \in DOMAIN sd[n].rows : Parseable(sd[n].rows[i])}
    IN  [n \in keep |-> [sd[n] EXCEPT !.rows = SelectSeq(@, Parseable)]]

WindowQueries ==
    {"get_event_stats", "get_top_species", "get_top_observers",
     "get_top_observers_by_lists", "get_all_species", "get_daily_trend"}

\* what the query named fn returns on the source map sd
Answer(fn, sd, start_date, end_date, limit) ==
    CASE fn = "get_event_stats" -> get_event_stats(sd, start_date, end_date)
      [] fn = "get_top_species" -> get_top_species(sd, start_date, end_date, limit)
      [] fn = "get_top_observers" -> get_top_observers(sd, start_date, end_date, limit)
      [] fn = "get_top_observers_by_lists" ->
            get_top_observers_by_lists(sd, start_date, end_date, limit)
      [] fn = "get_all_species" -> get_all_species(sd, start_date, end_date)
      [] fn = "get_daily_trend" -> get_daily_trend(sd, start_date, end_date)

\* C11: rows whose timestamp does not parse (text that is no date, an empty
\* cell) have no influence: each window-bounded or trend query returns, without
\* aborting, what it returns on the table without those rows.
C11_UnparseableRowsInert ==
    (/\ call.fn \in WindowQueries
     /\ \A n \in DOMAIN snapshot : "obsDt" \in snapshot[n].cols)
        => /\ ~ret.exc
           /\ ret.out = Answer(call.fn, WithoutInvalid(snapshot),
                               call.start_date, call.end_date, call.limit).out

\* C11 for timestamp cells that all hold text
C11_TextRowsInert ==
    (/\ call.fn \in WindowQueries
     /\ \A n \in DOMAIN snapshot :
           /\ "obsDt" \in snapshot[n].cols
           /\ \A i \in DOMAIN snapshot[n].rows : snapshot[n].rows[i].obsDt.k = "str")
        => /\ ~ret.exc
           /\ ret.out = Answer(call.fn, WithoutInvalid(snapshot),
                               call.start_date, call.end_date, call.limit).out

\* the (species, minute) bucket of a filtered row
Bucket(r, col) == <<r[col], r.obsDt.v[1] - (r.obsDt.v[1] % 60)>>

\* C12: the dedup step keeps, for each (species, minute) key, exactly the
\* first row in input order: its output is a subsequence of its input, no two
\* output rows share a key, and every input row is represented by the
\* earliest input row of its key.
C12_FirstRowOfEachKey ==
    (call.fn = "drop_duplicates" /\ call.limit = 1)
        => LET col == NameFirst(snapshot[call.sheet].cols)
               inp == Observed(call.sheet, call.start_date, call.end_date)
               out == ret.out
           IN  /\ \E idx \in SUBSET DOMAIN inp : out = TakeIdx(inp, idx)
               /\ \A p, q \in DOMAIN out :
                     p # q => Bucket(out[p], col) # Bucket(out[q], col)
               /\ \A i \in DOMAIN inp :
                     \E p \in DOMAIN out :
                        /\ Bucket(out[p], col) = Bucket(inp[i], col)
                        /\ \E j \in 1..i :
                              /\ out[p] = inp[j]
                              /\ \A k \in 1..(j - 1) :
                                    Bucket(inp[k], col) # Bucket(inp[i], col)

\* two reports of one species thirty seconds apart went in, in the order
\* later-earlier, with another row before them: the first of the two came out
C12_Witness ==
    /\ call.fn = "drop_duplicates"
    /\ call.limit = 1
    /\ LET col == NameFirst(snapshot[call.sheet].cols)
           inp == Observed(call.sheet, call.start_date, call.end_date)
       IN  /\ Len(inp) = 3
           /\ Len(ret.out) = 2
           /\ Bucket(inp[2], col) = Bucket(inp[3], col)
           /\ inp[2].obsDt.v[1] > inp[3].obsDt.v[1]
           /\ ret.out = <<inp[1], inp[2]>>

\* C13: 'listas' and 'observadores' of get_event_stats are the numbers of
\* distinct checklist ids and of distinct observer names among the rows of
\* filter(S, W), with no deduplication; rows outside W or without a valid
\* timestamp contribute nothing.
C13_ListsAndObservers ==
    (call.fn = "get_event_stats" /\ Compiled \in DOMAIN snapshot /\ ~ret.exc)
        => LET rows == Observed(Compiled, call.start_date, call.end_date)
           IN  /\ ret.out.listas = Cardinality(Named(rows, "subId"))
               /\ ret.out.observadores = Cardinality(Named(rows, "userDisplayName"))

\* the minute buckets inside the window in which species x was reported
Minutes(rows, col, x) ==
    {Bucket(rows[i], col)[2] : i \in {j \in DOMAIN rows : rows[j][col] = x}}

Min(a, b) == IF a <= b THEN a ELSE b

\* C14: get_top_species returns at most limit (species, count) pairs, one per
\* species, in non-increasing count order; the count of a species is the
\* number of distinct minutes inside W in which it was reported, and no
\* species left out has a greater count than one returned.
C14_TopSpeciesCounts ==
    (call.fn = "get_top_species" /\ ~ret.exc)
        => LET name == FirstPresent(snapshot, <<Compiled, Observations>>)
               col == NameFirst(snapshot[name].cols)
               rows == Observed(name, call.start_date, call.end_date)
               species == Named(rows, col)
           IN  /\ Len(ret.out) = Min(call.limit, Cardinality(species))
               /\ \A i, j \in DOMAIN ret.out :
                     /\ i < j => ret.out[i].count >= ret.out[j].count
                     /\ i # j => ret.out[i].label # ret.out[j].label
               /\ \A i \in DOMAIN ret.out :
                     /\ ret.out[i].label \in species
                     /\ ret.out[i].count =
                           Cardinality(Minutes(rows, col, ret.out[i].label))
                     /\ \A x \in species \ Labels(ret.out) :
                           Cardinality(Minutes(rows, col, x)) <= ret.out[i].count

\* a species reported in two minutes counts 2 and is returned; the species of
\* the first row, with the smaller count, was cut off by the limit
C14_Witness ==
    /\ call.fn = "get_top_species"
    /\ ~ret.exc
    /\ call.limit = 1
    /\ Len(ret.out) = 1
    /\ LET name == FirstPresent(snapshot, <<Compiled, Observations>>)
           col == NameFirst(snapshot[name].cols)
           rows == Observed(name, call.start_date, call.end_date)
       IN  /\ ret.out[1].count = 2
           /\ ret.out[1].label # rows[1][col]
           /\ \E x \in Named(rows, col) :
                 Cardinality(Minutes(rows, col, x)) < ret.out[1].count

\* C15: get_top_observers gives each observer the number of distinct species
\* among the observer's own rows of filter(S, W), with no (species, minute)
\* deduplication across observers, and returns at most limit observers in
\* non-increasing count order.
C15_ObserversBySpecies ==
    LET name == FirstPresent(snapshot, <<Compiled, Observations>>)
    IN  (/\ call.fn = "get_top_observers"
         /\ ~ret.exc
         /\ name # ""
         /\ {"obsDt", "userDisplayName"} \subseteq snapshot[name].cols
         /\ CodeFirst(snapshot[name].cols) # "")
        => LET col == CodeFirst(snapshot[name].cols)
               rows == Observed(name, call.start_date, call.end_date)
               observers == Named(rows, "userDisplayName")
               RefCount(u) ==
                   Cardinality(Named(RowsOf(rows, "userDisplayName", u), col))
           IN  /\ Len(ret.out) = Min(call.limit, Cardinality(observers))
               /\ \A i, j \in DOMAIN ret.out :
                     /\ i < j => ret.out[i].count >= ret.out[j].count
                     /\ i # j => ret.out[i].label # ret.out[j].label
               /\ \A i \in DOMAIN ret.out :
                     /\ ret.out[i].label \in observers
                     /\ ret.out[i].count = RefCount(ret.out[i].label)
                     /\ \A u \in observers \ Labels(ret.out) :
                           RefCount(u) <= ret.out[i].count

\* two observers reported one species in the same minute and it counts for
\* both: the one with two species comes first, the other has that one species
C15_Witness ==
    /\ call.fn = "get_top_observers"
    /\ ~ret.exc
    /\ Len(ret.out) = 2
    /\ ret.out[1].count = 2
    /\ ret.out[2].count = 1
    /\ LET rows == Observed(Compiled, call.start_date, call.end_date)
       IN  \E i, j \in DOMAIN rows :
              /\ i < j
              /\ rows[i].userDisplayName = ret.out[1].label
              /\ rows[j].userDisplayName = ret.out[2].label
              /\ Bucket(rows[i], "speciesCode") = Bucket(rows[j], "speciesCode")
              /\ \A k \in DOMAIN rows :
                    rows[k].userDisplayName = ret.out[2].label => k = j

\* C16: get_top_observers_by_lists gives each observer the number of distinct
\* checklist ids among the observer's rows of filter(S, W), whatever the
\* number of species rows of a checklist, and returns at most limit observers
\* in non-increasing count order.
C16_ObserversByLists ==
    LET name == FirstPresent(snapshot, <<Compiled, Checklists>>)
    IN  (/\ call.fn = "get_top_observers_by_lists"
         /\ ~ret.exc
         /\ name # ""
         /\ {"obsDt", "userDisplayName", "subId"} \subseteq snapshot[name].cols)
        => LET rows == Observed(name, call.start_date, call.end_date)
               listed == TakeIdx(rows, {i \in DOMAIN rows : rows[i].subId # NaN})
               observers == Named(listed, "userDisplayName")
               RefCount(u) ==
                   Cardinality(Named(RowsOf(rows, "userDisplayName", u), "subId"))
           IN  /\ Len(ret.out) = Min(call.limit, Cardinality(observers))
               /\ \A i, j \in DOMAIN ret.out :
                     /\ i < j => ret.out[i].count >= ret.out[j].count
                     /\ i # j => ret.out[i].label # ret.out[j].label
               /\ \A i \in DOMAIN ret.out :
                     /\ ret.out[i].label \in observers
                     /\ ret.out[i].count = RefCount(ret.out[i].label)
                     /\ \A u \in observers \ Labels(ret.out) :
                           RefCount(u) <= ret.out[i].count

\* an observer whose one checklist carries two rows counts 1, as does the
\* observer with a single row
C16_Witness ==
    /\ call.fn = "get_top_observers_by_lists"
    /\ ~ret.exc
    /\ Len(ret.out) = 2
    /\ ret.out[1].count = 1
    /\ ret.out[2].count = 1
    /\ LET rows == Observed(Compiled, call.start_date, call.end_date)
       IN  \E i \in DOMAIN ret.out :
              Len(RowsOf(rows, "userDisplayName", ret.out[i].label)) = 2

\* the species of the deduplicated rows of the window
CatalogSpecies ==
    LET name == FirstPresent(snapshot, <<Compiled, Observations>>)
        col == NameFirst(snapshot[name].cols)
        rows == Observed(name, call.start_date, call.end_date)
    IN  Named(drop_duplicates(rows, col), col)

\* C17: get_all_species returns exactly one row for each species of
\* dedupe(filter(S, W)): none is missing (also when its scientific name,
\* family or taxonomic order is empty) and none appears twice (also when its
\* rows disagree on them).
C17_OneRowPerSpecies ==
    LET name == FirstPresent(snapshot, <<Compiled, Observations>>)
    IN  (/\ call.fn = "get_all_species"
         /\ ~ret.exc
         /\ name # ""
         /\ "obsDt" \in snapshot[name].cols
         /\ NameFirst(snapshot[name].cols) # "")
        => /\ {ret.out[i].nome : i \in DOMAIN ret.out} = CatalogSpecies
           /\ \A i, j \in DOMAIN ret.out :
                 i # j => ret.out[i].nome # ret.out[j].nome

\* the taxonOrder the deduplicated rows give species x
TaxonOf(rows, col, x) ==
    LET i == CHOOSE k \in DOMAIN rows : rows[k][col] = x
    IN  rows[i].taxonOrder

\* C18: the catalog of get_all_species is in ascending numeric taxonOrder when
\* the column exists and the value of every row is a number; it is in
\* alphabetical order of the common name when the value of some row is no
\* number, and when there is no taxonOrder column.
C18_CatalogOrder ==
    LET name == FirstPresent(snapshot, <<Compiled, Observations>>)
    IN  (/\ call.fn = "get_all_species"
         /\ ~ret.exc
         /\ name # ""
         /\ "obsDt" \in snapshot[name].cols
         /\ NameFirst(snapshot[name].cols) # "")
        => LET col == NameFirst(snapshot[name].cols)
               rows == drop_duplicates(
                          Observed(name, call.start_date, call.end_date), col)
               numeric == /\ "taxonOrder" \in snapshot[name].cols
                          /\ \A k \in DOMAIN rows : rows[k].taxonOrder > 0
           IN  \A i, j \in DOMAIN ret.out :
                  i < j =>
                     IF numeric
                     THEN TaxonOf(rows, col, ret.out[i].nome)
                             <= TaxonOf(rows, col, ret.out[j].nome)
                     ELSE ret.out[i].nome <= ret.out[j].nome

\* C18 without its middle case: ascending taxonOrder when every value is a
\* number, alphabetical when there is no taxonOrder column
C18_OrderWhenNumericOrAbsent ==
    LET name == FirstPresent(snapshot, <<Compiled, Observations>>)
    IN  (/\ call.fn = "get_all_species"
         /\ ~ret.exc
         /\ name # ""
         /\ "obsDt" \in snapshot[name].cols
         /\ NameFirst(snapshot[name].cols) # "")
        => LET col == NameFirst(snapshot[name].cols)
               rows == drop_duplicates(
                          Observed(name, call.start_date, call.end_date), col)
               has == "taxonOrder" \in snapshot[name].cols
               numeric == \A k \in DOMAIN rows : rows[k].taxonOrder > 0
           IN  \A i, j \in DOMAIN ret.out :
                  i < j =>
                     /\ (has /\ numeric)
                           => TaxonOf(rows, col, ret.out[i].nome)
                                 <= TaxonOf(rows, col, ret.out[j].nome)
                     /\ ~has => ret.out[i].nome <= ret.out[j].nome

\* the calendar month (year, month) as a number of months
MonthIndex(y, mo) == (y - 2024) * 12 + (mo - 1)

\* the checklist ids of the rows of the loaded sheet whose timestamp text is
\* a date of month m
ListsOfMonth(name, m) ==
    LET rows == snapshot[name].rows
    IN  {rows[i].subId : i \in
            {j \in DOMAIN rows :
                /\ rows[j].obsDt.k = "str"
                /\ ValidText(rows[j].obsDt.v)
                /\ MonthIndex(rows[j].obsDt.v[1], rows[j].obsDt.v[2]) = m}}

\* C19: the entries of get_monthly_checklists_history are the monthsBack + 1
\* calendar months ending at endMonth (2025-05), in chronological order
\* without repeats; the count of a month is the number of distinct checklist
\* ids with a valid timestamp in it over all rows of the table, the rows
\* outside the event window included, and 0 for a month without checklist.
C19_MonthlyCounts ==
    LET name == FirstPresent(snapshot, <<Compiled, Checklists>>)
    IN  (/\ call.fn = "get_monthly_checklists_history"
         /\ ~ret.exc
         /\ name # ""
         /\ {"obsDt", "subId"} \subseteq snapshot[name].cols)
        => /\ Len(ret.out) = call.limit + 1
           /\ \A p \in DOMAIN ret.out :
                 /\ ret.out[p].month_year = MonthIndex(2025, 5) - call.limit + p - 1
                 /\ ret.out[p].num_checklists =
                       Cardinality(ListsOfMonth(name, ret.out[p].month_year))

\* Scenario 3: nothing in 2025-03, a checklist in 2025-04, two in 2025-05 of
\* which one lies outside the event period
C19_Witness ==
    /\ call.fn = "get_monthly_checklists_history"
    /\ ~ret.exc
    /\ call.limit = 2
    /\ Len(ret.out) = 3
    /\ ret.out[1] = [month_year |-> MonthIndex(2025, 3), num_checklists |-> 0]
    /\ ret.out[2] = [month_year |-> MonthIndex(2025, 4), num_checklists |-> 1]
    /\ ret.out[3] = [month_year |-> MonthIndex(2025, 5), num_checklists |-> 2]
    /\ Len(Observed(Compiled, start_datetime, end_datetime)) = 1

\* the calendar date of a filtered row, as a number of days
DayOf(r) == (r.obsDt.v[1] - (r.obsDt.v[1] % 86400)) \div 86400

\* C20: get_daily_trend has exactly one entry for each calendar date on which
\* filter(S, W) has a row, in date order, and none for another date;
\* num_especies is the number of distinct species reported that day and
\* num_observacoes the number of filtered rows of that day, not deduplicated,
\* so the num_observacoes add up to the size of filter(S, W).
C20_DailyTrend ==
    LET name == FirstPresent(snapshot, <<Compiled, Observations>>)
    IN  (/\ call.fn = "get_daily_trend"
         /\ ~ret.exc
         /\ name # ""
         /\ "obsDt" \in snapshot[name].cols)
        => LET col == CodeFirst(snapshot[name].cols)
               rows == Observed(name, call.start_date, call.end_date)
               days == {DayOf(rows[i]) : i \in DOMAIN rows}
               OfDay(d) == TakeIdx(rows, {i \in DOMAIN rows : DayOf(rows[i]) = d})
           IN  /\ Len(ret.out) = Cardinality(days)
               /\ \A p, q \in DOMAIN ret.out :
                     p < q => ret.out[p].data < ret.out[q].data
               /\ \A p \in DOMAIN ret.out :
                     LET d == ret.out[p].data
                     IN  /\ d \in days
                         /\ ret.out[p].num_observacoes = Len(OfDay(d))
                         /\ ret.out[p].num_especies =
                               IF col = "" THEN 0
                               ELSE Cardinality(Named(OfDay(d), col))

\* two days with rows and a day between them without: the first day has two
\* reports of one species in the same minute, both counted as observations
C20_Witness ==
    /\ call.fn = "get_daily_trend"
    /\ ~ret.exc
    /\ Len(ret.out) = 2
    /\ ret.out[2].data = ret.out[1].data + 2
    /\ ret.out[1].num_observacoes = 2
    /\ ret.out[1].num_especies = 1
    /\ ret.out[2].num_observacoes = 1
    /\ LET rows == Observed(Compiled, call.start_date, call.end_date)
       IN  /\ Len(rows) = 3
           /\ Len(drop_duplicates(rows, "speciesCode")) = 2

Queries ==
    WindowQueries \cup {"get_latest_species", "get_latest_checklists",
                        "get_first_species_records",
                        "get_monthly_checklists_history"}

\* what the query named fn returns on the source map sd (any of the ten)
Query(fn, sd, start_date, end_date, limit) ==
    CASE fn \in WindowQueries -> Answer(fn, sd, start_date, end_date, limit)
      [] fn = "get_latest_species" ->
            get_latest_species(sd, start_date, end_date, limit)
      [] fn = "get_latest_checklists" ->
            get_latest_checklists(sd, start_date, end_date, limit)
      [] fn = "get_first_species_records" ->
            get_first_species_records(sd, start_date, end_date, limit)
      [] fn = "get_monthly_checklists_history" ->
            get_monthly_checklists_history(sd, end_date, limit)

\* the table the priority rule gives the query fn on the loaded source map
Chosen(fn) ==
    IF Compiled \in DOMAIN snapshot THEN Compiled
    ELSE IF fn = "get_event_stats" THEN ""
    ELSE IF fn \in {"get_top_observers_by_lists", "get_monthly_checklists_history"}
    THEN IF Checklists \in DOMAIN snapshot THEN Checklists ELSE ""
    ELSE IF Observations \in DOMAIN snapshot THEN Observations
    ELSE IF fn = "get_latest_checklists" /\ Feed \in DOMAIN snapshot THEN Feed
    ELSE ""

\* the source map reduced to the sheet n (to nothing when n is "")
Only(sd, n) == [m \in {n} \cap DOMAIN sd |-> sd[m]]

\* C21: every query uses the first table of its priority list present in the
\* source map: the compiled table whenever present, a raw table only without
\* it, the feed only in get_latest_checklists without compiled and
\* observations; it answers as if that table alone were loaded, and as on
\* an empty source map (not-found) only when no table of its list is present.
C21_FirstPresentTable ==
    (call.fn \in Queries /\ ~ret.exc)
        => LET alone == Query(call.fn, Only(snapshot, Chosen(call.fn)),
                              call.start_date, call.end_date, call.limit)
           IN  /\ ret.out = alone.out
               /\ ret.warn = alone.warn

\* without the compiled sheet, with the observations, checklists and feed
\* sheets, get_latest_checklists lists the checklist of the observations sheet
C21_Witness ==
    /\ call.fn = "get_latest_checklists"
    /\ ~ret.exc
    /\ DOMAIN snapshot = {Observations, Checklists, Feed}
    /\ Len(ret.out) = 1
    /\ ret.out[1].subId = snapshot[Observations].rows[1].subId
    /\ ret.out[1].subId # snapshot[Feed].rows[1].subId

\* C22: on a table with both commonName and speciesCode every query keys the
\* species by commonName, so the species counts of get_event_stats,
\* get_top_species, get_top_observers, get_all_species and get_daily_trend
\* agree also when codes and names do not correspond one to one.
C22_SpeciesByName ==
    (/\ call.fn \in WindowQueries
     /\ ~ret.exc
     /\ Compiled \in DOMAIN snapshot
     /\ {"obsDt", "commonName", "speciesCode", "userDisplayName"}
           \subseteq snapshot[Compiled].cols)
        => LET rows == Observed(Compiled, call.start_date, call.end_date)
               names == Named(rows, "commonName")
               NamesOf(sel) == Named(sel, "commonName")
           IN  /\ call.fn = "get_event_stats"
                     => ret.out.especies = Cardinality(names)
               /\ call.fn = "get_top_species"
                     => Labels(ret.out) \subseteq names
               /\ call.fn = "get_all_species"
                     => {ret.out[i].nome : i \in DOMAIN ret.out} = names
               /\ call.fn = "get_top_observers"
                     => \A i \in DOMAIN ret.out :
                           ret.out[i].count =
                              Cardinality(NamesOf(RowsOf(rows, "userDisplayName",
                                                         ret.out[i].label)))
               /\ call.fn = "get_daily_trend"
                     => \A i \in DOMAIN ret.out :
                           ret.out[i].num_especies =
                              Cardinality(NamesOf(TakeIdx(rows,
                                 {k \in DOMAIN rows : DayOf(rows[k]) = ret.out[i].data})))

\* C23: a query whose table (or required column) is missing always emits a
\* warning, which tells that outcome from a window that matched no row; in
\* particular get_event_stats and the ranking queries on a source map without
\* their table.
C23_NotFoundIsDiagnosed ==
    (/\ call.fn \in {"get_event_stats", "get_top_species", "get_top_observers",
                     "get_top_observers_by_lists"}
     /\ Chosen(call.fn) = "")
        => ret.warn

\* C24: get_latest_checklists lists each checklist id of filter(S, W) in at
\* most one row, also when its rows differ in timestamp or observer; it
\* returns at most limit rows, in non-increasing timestamp order, all with a
\* timestamp inside W.
C24_UniqueChecklists ==
    (call.fn = "get_latest_checklists" /\ ~ret.exc)
        => /\ Len(ret.out) <= call.limit
           /\ \A i, j \in DOMAIN ret.out :
                 /\ i # j => ret.out[i].subId # ret.out[j].subId
                 /\ i < j => ret.out[i].obsDt >= ret.out[j].obsDt
           /\ \A i \in DOMAIN ret.out :
                 /\ call.start_date <= ret.out[i].obsDt
                 /\ ret.out[i].obsDt <= call.end_date

\* C25: the result of a query does not depend on the queries that ran before
\* it in the pass: the call returns what the same call returns on the source
\* map as it was loaded, although earlier queries may have parsed the obsDt
\* column of a shared table in place.
C25_OrderIndependent ==
    call.fn \in Queries
        => LET fresh == Query(call.fn, snapshot, call.start_date,
                              call.end_date, call.limit)
           IN  /\ ret.exc = fresh.exc
               /\ ret.out = fresh.out
               /\ ret.warn = fresh.warn

\* a query that returned rows from a table an earlier query had converted
C25_Witness ==
    /\ call.fn = "get_top_species"
    /\ sheets_data # snapshot
    /\ ~ret.exc
    /\ ret.out # <<>>

====
